---- MODULE Spec2Model ----
(***************************************************************************)
(* Model of viz_slots.py: the cost tables, move_cost, apply_move,          *)
(* start_slots and the step-by-step replay loop of visualize.              *)
(*                                                                         *)
(* Two specifications share the variables:                                 *)
(*   Spec      one call of visualize(pl_file, sid): solver response,       *)
(*             header, initial layout, frame 0, then per move              *)
(*             move_cost / apply_move / draw_grid, then the summary.       *)
(*   SpecExec  the body of the replay loop (move_cost then apply_move)     *)
(*             called with every move over the known locations, shelf      *)
(*             positions and blocks, from every scenario's initial layout. *)
(*                                                                         *)
(* Python's None is the string "None"; an exception is the value of err    *)
(* (the prefix of the message the code raises with), "none" = no exception.*)
(* Moves arrive from JSON with integer shelf positions, so int(sp) and     *)
(* int(dp) leave them as they are.                                         *)
(***************************************************************************)
EXTENDS Integers, Sequences, FiniteSets, TLC

VARIABLES sid, res, pc, slots, built, frames, running_cost, i, out, err,
          act, c, br, before, rt, origin, items0

vars == <<sid, res, pc, slots, built, frames, running_cost, i, out, err,
          act, c, br, before, rt, origin, items0>>

-----------------------------------------------------------------------------
(* Bounds of the model *)

MaxPlanLen == 2

MaxCost == 4

-----------------------------------------------------------------------------
(* Tables of the program *)

None == "None"

Locs == {"a", "b", "c"}

Blocks == {"a", "b", "c"}

DIST ==
  (<<"a", "b">> :> 2) @@ (<<"b", "a">> :> 2) @@
  (<<"a", "c">> :> 3) @@ (<<"c", "a">> :> 3) @@
  (<<"b", "c">> :> 1) @@ (<<"c", "b">> :> 1)

SHELF_HEIGHT == (1 :> 1) @@ (2 :> 3) @@ (3 :> 5)

WEIGHT == [a |-> 1, b |-> 2, c |-> 3]

Pos == DOMAIN SHELF_HEIGHT

Action == [sl : Locs, sp : Pos, dl : Locs, dp : Pos, block : Blocks]

Abs(x) == IF x < 0 THEN -x ELSE x

-----------------------------------------------------------------------------
(* Pure functions of the program *)

KnownScenarios == {"s1", "s2", "s3", "s4"}

Layout(a1, a2, a3, b1) ==
  [l \in Locs |->
     IF l = "a" THEN (1 :> a1) @@ (2 :> a2) @@ (3 :> a3)
     ELSE IF l = "b" THEN (1 :> b1) @@ (2 :> None) @@ (3 :> None)
     ELSE (1 :> None) @@ (2 :> None) @@ (3 :> None)]

\* An unknown scenario falls back to the layout of s1.
start_slots_default(s) ==
  IF s = "s2" THEN [err |-> "none", slots |-> Layout("c", "b", None, "a")]
  ELSE IF s \in {"s3", "s4"} THEN [err |-> "none", slots |-> Layout("a", "b", "c", None)]
  ELSE [err |-> "none", slots |-> Layout("a", "b", None, "c")]

start_slots(s) ==
  IF s = "s1" THEN [err |-> "none", slots |-> Layout("a", "b", None, "c")]
  ELSE IF s = "s2" THEN [err |-> "none", slots |-> Layout("c", "b", None, "a")]
  ELSE IF s = "s3" THEN [err |-> "none", slots |-> Layout("a", "b", "c", None)]
  ELSE IF s = "s4" THEN [err |-> "none", slots |-> Layout("a", "b", "c", None)]
  ELSE [err |-> "Unknown scenario", slots |-> <<>>]

\* The vertical term without abs.
move_cost_signed(a) ==
  LET d == IF <<a.sl, a.dl>> \in DOMAIN DIST THEN DIST[<<a.sl, a.dl>>] ELSE 0
      v == SHELF_HEIGHT[a.sp] - SHELF_HEIGHT[a.dp]
      w == WEIGHT[a.block]
  IN  [cost |-> w * (d + v),
       br |-> [distance |-> d, vertical |-> v, weight |-> w]]

move_cost(a) ==
  LET d == IF <<a.sl, a.dl>> \in DOMAIN DIST THEN DIST[<<a.sl, a.dl>>] ELSE 0
      v == Abs(SHELF_HEIGHT[a.sp] - SHELF_HEIGHT[a.dp])
      w == WEIGHT[a.block]
  IN  [cost |-> w * (d + v),
       br |-> [distance |-> d, vertical |-> v, weight |-> w]]

\* The destination check before the source check.
apply_move_dest_first(s, a) ==
  IF s[a.dl][a.dp] # None
    THEN [err |-> "Destination not empty", slots |-> s]
  ELSE IF s[a.sl][a.sp] # a.block
    THEN [err |-> "Expected", slots |-> s]
  ELSE [err |-> "none",
        slots |-> [[s EXCEPT ![a.sl][a.sp] = None]
                        EXCEPT ![a.dl][a.dp] = a.block]]

\* The source slot is not cleared.
apply_move_keep_source(s, a) ==
  IF s[a.sl][a.sp] # a.block
    THEN [err |-> "Expected", slots |-> s]
  ELSE IF s[a.dl][a.dp] # None
    THEN [err |-> "Destination not empty", slots |-> s]
  ELSE [err |-> "none", slots |-> [s EXCEPT ![a.dl][a.dp] = a.block]]

\* The destination check is missing.
apply_move_no_dest_check(s, a) ==
  IF s[a.sl][a.sp] # a.block
    THEN [err |-> "Expected", slots |-> s]
  ELSE [err |-> "none",
        slots |-> [[s EXCEPT ![a.sl][a.sp] = None]
                        EXCEPT ![a.dl][a.dp] = a.block]]

\* The source slot is cleared before the destination is checked.
apply_move_clear_first(s, a) ==
  IF s[a.sl][a.sp] # a.block
    THEN [err |-> "Expected", slots |-> s]
  ELSE IF s[a.dl][a.dp] # None
    THEN [err |-> "Destination not empty",
          slots |-> [s EXCEPT ![a.sl][a.sp] = None]]
  ELSE [err |-> "none",
        slots |-> [[s EXCEPT ![a.sl][a.sp] = None]
                        EXCEPT ![a.dl][a.dp] = a.block]]

apply_move(s, a) ==
  IF s[a.sl][a.sp] # a.block
    THEN [err |-> "Expected", slots |-> s]
  ELSE IF s[a.dl][a.dp] # None
    THEN [err |-> "Destination not empty", slots |-> s]
  ELSE [err |-> "none",
        slots |-> [[s EXCEPT ![a.sl][a.sp] = None]
                        EXCEPT ![a.dl][a.dp] = a.block]]

\* Number of slots each block occupies.
ItemBag(s) ==
  [b \in Blocks |-> Cardinality({q \in Locs \X Pos : s[q[1]][q[2]] = b})]

Reverse(a) ==
  [sl |-> a.dl, sp |-> a.dp, dl |-> a.sl, dp |-> a.sp, block |-> a.block]

\* The loop counts its steps from 0, so a post-move frame takes the file
\* name of the frame before it.
draw_grid_from_zero(fs, s, step, current_move) ==
  Append(fs, [step |-> IF step > 0 THEN step - 1 ELSE 0, slots |-> s,
              current_move |-> current_move])

draw_grid(fs, s, step, current_move) ==
  Append(fs, [step |-> step, slots |-> s, current_move |-> current_move])

print_line(o, line, val) == Append(o, [line |-> line, val |-> val])

-----------------------------------------------------------------------------
(* Inputs *)

Scenarios == KnownScenarios \cup {"s9"}

\* Moves the modelled solver puts in a plan: block a or b taken from one of the
\* two lower shelves of location a to a lower shelf of location c or to a:1.
PlanMoves ==
  {m \in Action : /\ m.sl = "a" /\ m.sp \in {1, 2}
                  /\ \/ m.dl = "c" /\ m.dp \in {1, 2}
                     \/ m.dl = "a" /\ m.dp = 1
                  /\ m.block \in {"a", "b"}}

RECURSIVE SeqsUpTo(_, _)
SeqsUpTo(S, n) ==
  IF n = 0 THEN {<<>>}
  ELSE LET shorter == SeqsUpTo(S, n - 1)
       IN  shorter \cup {Append(p, m) : p \in {q \in shorter : Len(q) = n - 1}, m \in S}

Plans == SeqsUpTo(PlanMoves, MaxPlanLen)

AllKeys == {"ok", "plan", "cost", "budget", "goal"}

\* The JSON object of the solver: the keys it carries and their values.
Responses ==
  [keys : {AllKeys} \cup {AllKeys \ {k} : k \in AllKeys},
   ok : BOOLEAN, plan : Plans, cost : 0..MaxCost]

NoResponse == [keys |-> {}, ok |-> FALSE, plan |-> <<>>, cost |-> 0]

NoAct == [sl |-> "a", sp |-> 1, dl |-> "a", dp |-> 1, block |-> "a"]

NoBr == [distance |-> 0, vertical |-> 0, weight |-> 0]

-----------------------------------------------------------------------------
(* visualize(pl_file, sid) *)

Init ==
  /\ sid \in Scenarios
  /\ res = NoResponse
  /\ pc = "run_prolog"
  /\ slots = Layout(None, None, None, None)
  /\ built = FALSE
  /\ frames = <<>>
  /\ running_cost = 0
  /\ i = 0
  /\ out = <<>>
  /\ err = "none"
  /\ act = NoAct
  /\ c = 0
  /\ br = NoBr
  /\ before = slots
  /\ rt = FALSE
  /\ origin = slots
  /\ items0 = ItemBag(slots)

\* History kept for the properties of single calls; visualize never touches it.
Harness == <<before, rt, origin, items0>>

\* run_prolog: the process fails, prints nothing, or prints a JSON object.
RunProlog ==
  /\ pc = "run_prolog"
  /\ \/ /\ err' = "Prolog failed."
        /\ pc' = "raised"
        /\ res' = res
     \/ /\ err' = "No JSON output from Prolog."
        /\ pc' = "raised"
        /\ res' = res
     \/ /\ res' \in Responses
        /\ pc' = "header"
        /\ err' = err
  /\ UNCHANGED <<sid, slots, built, frames, running_cost, i, out, act, c, br, Harness>>

\* The "no plan" branch prints and falls through instead of returning.
HeaderNoReturn ==
  /\ pc = "header"
  /\ LET o1 == print_line(print_line(out, "=== Scenario", 0), "Block weights:", 0)
         o2 == IF "goal" \in res.keys THEN print_line(o1, "Goal state:", 0) ELSE o1
     IN  IF ~("ok" \in res.keys /\ res.ok)
           THEN out' = print_line(o2, "No plan found:", 0)
           ELSE out' = o2
  /\ pc' = "read_plan"
  /\ UNCHANGED <<sid, res, slots, built, frames, running_cost, i, err, act, c, br, Harness>>

\* Lines 188-199: header, weights, goal, and the "no plan" return.
Header ==
  /\ pc = "header"
  /\ LET o1 == print_line(print_line(out, "=== Scenario", 0), "Block weights:", 0)
         o2 == IF "goal" \in res.keys THEN print_line(o1, "Goal state:", 0) ELSE o1
     IN  IF ~("ok" \in res.keys /\ res.ok)
           THEN /\ out' = print_line(o2, "No plan found:", 0)
                /\ pc' = "returned"
           ELSE /\ out' = o2
                /\ pc' = "read_plan"
  /\ UNCHANGED <<sid, res, slots, built, frames, running_cost, i, err, act, c, br, Harness>>

\* Lines 201-206: res["plan"], res["cost"], res["budget"] and their prints.
ReadPlan ==
  /\ pc = "read_plan"
  /\ IF {"plan", "cost", "budget"} \subseteq res.keys
       THEN /\ out' = print_line(print_line(print_line(out, "Budget:", 0),
                                "Plan steps:", Len(res.plan)),
                                "Total cost (Prolog):", res.cost)
            /\ pc' = "start_slots"
            /\ err' = err
       ELSE /\ err' = "KeyError"
            /\ pc' = "raised"
            /\ out' = out
  /\ UNCHANGED <<sid, res, slots, built, frames, running_cost, i, act, c, br, Harness>>

\* Lines 208-216: initial layout, its print, frame 0, running_cost = 0.
StartSlots ==
  /\ pc = "start_slots"
  /\ LET r == start_slots(sid)
     IN  IF r.err # "none"
           THEN /\ err' = r.err
                /\ pc' = "raised"
                /\ UNCHANGED <<slots, built, frames, out, running_cost, i>>
           ELSE /\ slots' = r.slots
                /\ built' = TRUE
                /\ out' = print_line(out, "Initial state:", 0)
                /\ frames' = draw_grid(frames, r.slots, 0, <<>>)
                /\ running_cost' = 0
                /\ i' = 1
                /\ pc' = IF Len(res.plan) >= 1 THEN "move_cost" ELSE "summary"
                /\ err' = err
  /\ UNCHANGED <<sid, res, act, c, br, Harness>>

\* Lines 217-225: next move of the plan, its cost, the running total, prints.
LoopCost ==
  /\ pc = "move_cost"
  /\ LET a == res.plan[i]
         r == move_cost(a)
     IN  /\ act' = a
         /\ c' = r.cost
         /\ br' = r.br
         /\ running_cost' = running_cost + r.cost
         /\ out' = print_line(print_line(out, "Step", i), "step_cost =", r.cost)
  /\ pc' = "apply_move"
  /\ UNCHANGED <<sid, res, slots, built, frames, i, err, Harness>>

\* Lines 227-230: apply_move works on slots in place and raises or returns;
\* the state print follows a return.
LoopApply ==
  /\ pc = "apply_move"
  /\ LET r == apply_move(slots, act)
     IN  /\ slots' = r.slots
         /\ IF r.err # "none"
              THEN /\ err' = r.err
                   /\ pc' = "raised"
                   /\ out' = out
              ELSE /\ out' = print_line(out, "state:", 0)
                   /\ pc' = "draw_grid"
                   /\ err' = err
  /\ UNCHANGED <<sid, res, built, frames, running_cost, i, act, c, br, Harness>>

\* Line 232, and the loop's advance to the next move or to the summary.
LoopDraw ==
  /\ pc = "draw_grid"
  /\ frames' = draw_grid(frames, slots, i, <<act>>)
  /\ i' = i + 1
  /\ pc' = IF i < Len(res.plan) THEN "move_cost" ELSE "summary"
  /\ UNCHANGED <<sid, res, slots, built, running_cost, out, err, act, c, br, Harness>>

\* Lines 234-235.
Summary ==
  /\ pc = "summary"
  /\ out' = print_line(print_line(out, "Total cost (Python recompute):", running_cost),
                       "Images saved in:", 0)
  /\ pc' = "returned"
  /\ UNCHANGED <<sid, res, slots, built, frames, running_cost, i, err, act, c, br, Harness>>

Next ==
  \/ RunProlog
  \/ Header
  \/ ReadPlan
  \/ StartSlots
  \/ LoopCost
  \/ LoopApply
  \/ LoopDraw
  \/ Summary

Spec == Init /\ [][Next]_vars

-----------------------------------------------------------------------------
(* The replay step on its own: move_cost, then apply_move, for any move *)

InitExec ==
  /\ sid = "none"
  /\ res = NoResponse
  /\ pc = "call"
  /\ \E s \in KnownScenarios : slots = start_slots(s).slots
  /\ built = TRUE
  /\ frames = <<>>
  /\ running_cost = 0
  /\ i = 0
  /\ out = <<>>
  /\ err = "none"
  /\ act = NoAct
  /\ c = 0
  /\ br = NoBr
  /\ before = slots
  /\ rt = FALSE
  /\ origin = slots
  /\ items0 = ItemBag(slots)

\* Lines 218 and 227 with move m; pc tells how apply_move ended ("applied" or
\* "caught" for a ValueError). before is the state the call found, rt says
\* that m is the reverse of the move the call before applied, origin is then
\* the state that earlier call found.
ExecStep(m) ==
  /\ pc \in {"call", "applied"}
  /\ LET r == move_cost(m)
         q == apply_move(slots, m)
         undo == pc = "applied" /\ m = Reverse(act)
     IN  /\ act' = m
         /\ c' = r.cost
         /\ br' = r.br
         /\ before' = slots
         /\ err' = q.err
         /\ slots' = q.slots
         /\ rt' = undo
         /\ origin' = IF undo THEN before ELSE q.slots
         /\ pc' = IF q.err = "none" THEN "applied" ELSE "caught"
  /\ UNCHANGED <<sid, res, built, frames, running_cost, i, out, items0>>

\* The caller of a rejected apply_move catches the ValueError and goes on
\* with the state apply_move left.
ExecCaught ==
  /\ pc = "caught"
  /\ pc' = "call"
  /\ err' = "none"
  /\ act' = NoAct
  /\ c' = 0
  /\ br' = NoBr
  /\ before' = slots
  /\ rt' = FALSE
  /\ origin' = slots
  /\ UNCHANGED <<sid, res, slots, built, frames, running_cost, i, out, items0>>

NextExec ==
  \/ \E m \in Action : ExecStep(m)
  \/ ExecCaught

SpecExec == InitExec /\ [][NextExec]_vars

-----------------------------------------------------------------------------
(* Notions the properties are stated in *)

Valid(s, a) == s[a.sl][a.sp] = a.block /\ s[a.dl][a.dp] = None

\* The effect a move is declared to have: source emptied, destination filled.
Moved(s, a) == [s EXCEPT ![a.sl][a.sp] = None, ![a.dl][a.dp] = a.block]

RECURSIVE Replay(_, _, _)
Replay(s, plan, k) ==
  IF k = 0 THEN s ELSE Moved(Replay(s, plan, k - 1), plan[k])

InitialLayout ==
  IF sid = "s1" THEN Layout("a", "b", None, "c")
  ELSE IF sid = "s2" THEN Layout("c", "b", None, "a")
  ELSE Layout("a", "b", "c", None)

\* Exactly the frames 0..k have been rendered, in order, frame j showing the
\* initial layout with the first j moves applied and annotated with move j.
FramesAre(k) ==
  /\ Len(frames) = k + 1
  /\ \A j \in 0..k :
       /\ frames[j + 1].step = j
       /\ frames[j + 1].slots = Replay(InitialLayout, res.plan, j)
       /\ frames[j + 1].current_move = IF j = 0 THEN <<>> ELSE <<res.plan[j]>>

Called == pc \in {"applied", "caught"}

Responded == res # NoResponse

Truthy == "ok" \in res.keys /\ res.ok

Ended == pc \in {"returned", "raised"}

-----------------------------------------------------------------------------
(* C1 *)

\* C1 (as amended): after a call of apply_move, if the source slot did not hold
\* the declared item the call failed with the source-mismatch error
\* ("Expected ..."), and if the source slot held it and the destination slot
\* was not empty the call failed with the destination-occupied error
\* ("Destination not empty ..."); in both cases every slot is what it was.
C1_InvalidMoveRejected ==
  Called =>
    /\ before[act.sl][act.sp] # act.block =>
         pc = "caught" /\ err = "Expected" /\ slots = before
    /\ (before[act.sl][act.sp] = act.block /\ before[act.dl][act.dp] # None) =>
         pc = "caught" /\ err = "Destination not empty" /\ slots = before

C1_Witness ==
  /\ pc = "caught"
  /\ err = "Destination not empty"
  /\ before[act.sl][act.sp] = act.block
  /\ before[act.dl][act.dp] # None
  /\ act.sl # act.dl

\* C1 as stated: every move onto an occupied destination fails with the
\* destination-occupied error, whatever the source slot holds.
C1_AsStated ==
  Called =>
    /\ before[act.sl][act.sp] # act.block =>
         pc = "caught" /\ err = "Expected" /\ slots = before
    /\ before[act.dl][act.dp] # None =>
         pc = "caught" /\ err = "Destination not empty" /\ slots = before

-----------------------------------------------------------------------------
(* C2 *)

\* C2: when a fully replayed plan's recomputed cost differs from the cost the
\* solver reported, the run returns normally and its output carries a line
\* that flags the mismatch.
C2_MismatchFlagged ==
  (pc = "returned" /\ built /\ running_cost # res.cost) =>
    /\ err = "none"
    /\ \E k \in 1..Len(out) : out[k].line \in {"CostMismatch", "Cost mismatch"}

-----------------------------------------------------------------------------
(* C3 *)

C3_Stopped ==
  (pc = "raised" /\ err \in {"Expected", "Destination not empty"}) =>
    /\ i \in 1..Len(res.plan)
    /\ act = res.plan[i]
    /\ ~Valid(Replay(InitialLayout, res.plan, i - 1), act)
    /\ slots = Replay(InitialLayout, res.plan, i - 1)
    /\ FramesAre(i - 1)

C3_NothingAfter ==
  /\ pc = "raised" => UNCHANGED vars
  /\ \A k \in 1..Len(frames) : Len(frames') >= k /\ frames'[k] = frames[k]

\* C3: when step i of the plan violates a precondition the run is over: the
\* state is the initial layout with exactly moves 1..i-1 applied, frames
\* 0..i-1 and no others have been rendered, nothing changes afterwards, and no
\* step of a run ever alters a frame already rendered.
C3_StopsAtFailingStep == []C3_Stopped /\ [][C3_NothingAfter]_vars

C3_Witness ==
  /\ pc = "raised"
  /\ err = "Destination not empty"
  /\ i = 2
  /\ Len(frames) = 2

-----------------------------------------------------------------------------
(* C4 *)

\* C4: in a run over a plan of N moves, move i is evaluated and applied with
\* exactly frames 0..i-1 rendered and the first i-1 moves applied, frame i is
\* rendered with exactly the first i moves applied, and a run that replayed
\* the whole plan has rendered exactly the frames 0..N, frame j showing the
\* state after the first j moves (frame 0 alone for the empty plan).
C4_FramesInOrder ==
  built =>
    /\ pc \in {"move_cost", "apply_move"} =>
         /\ i \in 1..Len(res.plan)
         /\ slots = Replay(InitialLayout, res.plan, i - 1)
         /\ FramesAre(i - 1)
    /\ pc = "draw_grid" =>
         /\ i \in 1..Len(res.plan)
         /\ slots = Replay(InitialLayout, res.plan, i)
         /\ FramesAre(i - 1)
    /\ pc \in {"summary", "returned"} =>
         /\ slots = Replay(InitialLayout, res.plan, Len(res.plan))
         /\ FramesAre(Len(res.plan))

C4_Witness ==
  /\ pc = "returned"
  /\ built
  /\ Len(res.plan) >= 2
  /\ Len(frames) = Len(res.plan) + 1
  /\ frames[Len(frames)].slots # frames[1].slots

-----------------------------------------------------------------------------
(* C5 *)

\* C5: a call of apply_move with a valid move is accepted, leaves the source
\* slot empty and the destination slot holding the item, and leaves every
\* other cell as it was; only valid moves are accepted.
C5_ValidMoveEffect ==
  Called =>
    /\ pc = "applied" <=> Valid(before, act)
    /\ pc = "applied" =>
         /\ slots[act.sl][act.sp] = None
         /\ slots[act.dl][act.dp] = act.block
         /\ \A l \in Locs, p \in Pos :
              (<<l, p>> # <<act.sl, act.sp>> /\ <<l, p>> # <<act.dl, act.dp>>)
                => slots[l][p] = before[l][p]

C5_Witness ==
  /\ pc = "applied"
  /\ Valid(before, act)
  /\ slots # before

-----------------------------------------------------------------------------
(* C6 *)

\* C6: after any sequence of calls of apply_move, accepted or rejected, the
\* multiset of items in the state is that of the initial layout and no item
\* is in more than one slot.
C6_ItemConservation ==
  /\ ItemBag(slots) = items0
  /\ \A b \in Blocks : ItemBag(slots)[b] <= 1

C6_Witness ==
  /\ pc = "caught"
  /\ \A s \in KnownScenarios : slots # start_slots(s).slots
  /\ ItemBag(slots) = items0

-----------------------------------------------------------------------------
(* C7 *)

\* C7: for a solver result whose ok is false (or absent), the run is either
\* about to print its header or has returned after printing "No plan found":
\* it never raises, never builds a scenario state and never renders a frame.
C7_NoPlanReported ==
  (Responded /\ ~Truthy) =>
    /\ pc \in {"header", "returned"}
    /\ err = "none"
    /\ ~built
    /\ frames = <<>>
    /\ pc = "returned" => out[Len(out)].line = "No plan found:"

C7_Witness ==
  /\ pc = "returned"
  /\ "ok" \in res.keys
  /\ ~res.ok
  /\ Len(res.plan) > 0
  /\ sid \in KnownScenarios

-----------------------------------------------------------------------------
(* C8 *)

\* C8 (as amended): with an unknown scenario id no frame is rendered and no
\* layout is built, for every solver response; the run aborts with the
\* unknown-scenario error when the response has ok true and carries plan,
\* cost and budget, aborts with a KeyError when ok is true and one of those
\* keys is missing, and returns normally with "No plan found" when ok is
\* false or absent.
C8_UnknownScenario ==
  sid \notin KnownScenarios =>
    /\ frames = <<>>
    /\ ~built
    /\ (Responded /\ Ended) =>
         /\ (Truthy /\ {"plan", "cost", "budget"} \subseteq res.keys) =>
              pc = "raised" /\ err = "Unknown scenario"
         /\ (Truthy /\ ~({"plan", "cost", "budget"} \subseteq res.keys)) =>
              pc = "raised" /\ err = "KeyError"
         /\ ~Truthy =>
              pc = "returned" /\ err = "none"
                /\ out[Len(out)].line = "No plan found:"

C8_Witness ==
  /\ sid \notin KnownScenarios
  /\ pc = "raised"
  /\ err = "Unknown scenario"
  /\ Len(res.plan) > 0

\* C8 as stated: with an unknown scenario id the run ends, for every solver
\* response, by aborting with the unknown-scenario error and without a frame.
C8_AsStated ==
  (sid \notin KnownScenarios /\ Responded /\ Ended) =>
    /\ pc = "raised"
    /\ err = "Unknown scenario"
    /\ frames = <<>>
    /\ ~built

-----------------------------------------------------------------------------
(* C9 *)

ExpectedDistance(l1, l2) ==
  IF {l1, l2} = {"a", "b"} THEN 2
  ELSE IF {l1, l2} = {"a", "c"} THEN 3
  ELSE IF {l1, l2} = {"b", "c"} THEN 1
  ELSE 0

ExpectedHeight(p) == 2 * p - 1

ExpectedWeight(b) == IF b = "a" THEN 1 ELSE IF b = "b" THEN 2 ELSE 3

Larger(x, y) == IF x >= y THEN x ELSE y

Smaller(x, y) == IF x >= y THEN y ELSE x

\* C9: the cost computed for a move is weight(item) * (distance(source
\* location, destination location) + |height(source slot) - height(destination
\* slot)|), the distance being the table's value and 0 for a pair the table
\* lacks; the breakdown holds exactly these three terms; the cost is never
\* negative; moving item a from a:1 to c:2 costs 5.
C9_CostFormula ==
  Called =>
    LET d == ExpectedDistance(act.sl, act.dl)
        h1 == ExpectedHeight(act.sp)
        h2 == ExpectedHeight(act.dp)
        v == Larger(h1, h2) - Smaller(h1, h2)
        w == ExpectedWeight(act.block)
    IN  /\ c = w * (d + v)
        /\ br = [distance |-> d, vertical |-> v, weight |-> w]
        /\ c >= 0
        /\ d = (IF <<act.sl, act.dl>> \in DOMAIN DIST
                  THEN DIST[<<act.sl, act.dl>>] ELSE 0)
        /\ act = [sl |-> "a", sp |-> 1, dl |-> "c", dp |-> 2, block |-> "a"]
             => c = 5

C9_Witness ==
  /\ pc = "applied"
  /\ act = [sl |-> "a", sp |-> 1, dl |-> "c", dp |-> 2, block |-> "a"]
  /\ c = 5
  /\ br = [distance |-> 3, vertical |-> 2, weight |-> 1]

-----------------------------------------------------------------------------
(* C10 *)

\* C10: when a valid move has been applied and the next call is the reversed
\* move (source and destination swapped, same item), that call is accepted
\* and the state is again the one the first of the two calls found.
C10_RoundTrip ==
  rt => pc = "applied" /\ slots = origin

C10_Witness ==
  /\ rt
  /\ pc = "applied"
  /\ slots = origin
  /\ before # slots
  /\ before = Moved(origin, Reverse(act))

====
